---- MODULE Spec2Model ----
(***************************************************************************)
(* Model of fakefuse.py: a read-only FUSE filesystem whose tree is built   *)
(* once from a list of path strings (MyFileSystem.expand_paths_to_dict)    *)
(* and then served by getattr / readdir; the nine mutating operations      *)
(* raise ENOSYS.                                                           *)
(*                                                                         *)
(* Strings are sequences of one-character strings, so that str.split('/')  *)
(* is computed character by character.  A path segment (a dict key) is     *)
(* such a sequence too: <<>> is the empty key '', <<".">> is '.',          *)
(* <<".", ".">> is '..'.                                                   *)
(*                                                                         *)
(* The nested dicts of self.files are kept flat: files is a function from  *)
(* the chain of keys that leads to a dict (<<>> is the root dict) to the   *)
(* sequence of that dict's keys in insertion order (Python dicts keep      *)
(* insertion order, and list(current.keys()) returns it).                  *)
(***************************************************************************)
EXTENDS Integers, Sequences, FiniteSets, TLC

\* Bounds of the model: the characters read from standard input, and the
\* characters of the path a callback is given.
MaxInputLen == 5
MaxQueryLen == 3

\* The characters paths are made of: a name character, the placeholder
\* character and the separator.  Standard input has the line end as well.
Alphabet == {"a", ".", "/"}
Newline == "\n"
Whitespace == {Newline}

\* The values time() returns.
Clock == {0, 1}

S_IFDIR == 16384
Mode755 == 493

\* paths: the list main hands to MyFileSystem; files: self.files;
\* op, arg, ret: the callback the mount loop is in, the path a lookup was
\* given, and what the callback returned or raised.
VARIABLES paths, files, op, arg, ret

vars == <<paths, files, op, arg, ret>>

----------------------------------------------------------------------------
\* Input sets.

StringsOver(chars, n) == UNION {[1..k -> chars] : k \in 0..n}

Streams == StringsOver(Alphabet \cup {Newline}, MaxInputLen)

\* "for line in sys.stdin": the lines with their line ends; a last line
\* without a line end is a line too, an empty rest is not.
RECURSIVE Lines(_, _)
Lines(s, line) ==
  IF s = <<>> THEN (IF line = <<>> THEN <<>> ELSE <<line>>)
  ELSE IF Head(s) = Newline
       THEN <<Append(line, Newline)>> \o Lines(Tail(s), <<>>)
       ELSE Lines(Tail(s), Append(line, Head(s)))

RECURSIVE lstrip(_)
lstrip(s) ==
  IF s # <<>> /\ Head(s) \in Whitespace THEN lstrip(Tail(s)) ELSE s

RECURSIVE rstrip(_)
rstrip(s) ==
  IF s # <<>> /\ s[Len(s)] \in Whitespace
  THEN rstrip(SubSeq(s, 1, Len(s) - 1)) ELSE s

\* line.strip()
strip(s) == rstrip(lstrip(s))

\* paths.append(line.strip()) for every line
ReadPaths(stdin) ==
  LET ls == Lines(stdin, <<>>) IN [i \in 1..Len(ls) |-> strip(ls[i])]

PathLists == {ReadPaths(stdin) : stdin \in Streams}

Queries == StringsOver(Alphabet, MaxQueryLen)

\* The paths the rejected operations are called with: the root, a name and
\* a name below a name.
RejectedArgs == {<<"/">>, <<"/", "a">>, <<"/", "a", "/", "a">>}

----------------------------------------------------------------------------
\* str.split('/'): the segments between separators, empty ones included;
\* ''.split('/') is [''].

RECURSIVE split(_)
split(s) ==
  IF s = <<>> THEN << <<>> >>
  ELSE LET r == split(Tail(s)) IN
       IF Head(s) = "/" THEN << <<>> >> \o r
       ELSE << <<Head(s)>> \o Head(r) >> \o Tail(r)

\* [part for part in parts if part]
DropEmpty(parts) == SelectSeq(parts, LAMBDA part : part # <<>>)

\* The keys of the dict at node current.
Keys(fs, current) == {fs[current][i] : i \in 1..Len(fs[current])}

IsPrefixChain(c, d) == Len(c) <= Len(d) /\ SubSeq(d, 1, Len(c)) = c

----------------------------------------------------------------------------
\* Tree builder.

\* Mutant: the membership test is forgotten, every segment is (re)assigned.
NotIn_always(fs, current, part) == TRUE

\* part not in current
NotIn(fs, current, part) == part \notin Keys(fs, current)

\* current[part] = {} : the key keeps its place if it exists already, is
\* appended otherwise; whatever hung below it is gone.
SetItem(fs, current, part) ==
  LET child == Append(current, part)
      kept  == {c \in DOMAIN fs : ~IsPrefixChain(child, c)}
  IN  [c \in kept \cup {child} |->
         IF c = child THEN <<>>
         ELSE IF c = current /\ part \notin Keys(fs, current)
              THEN Append(fs[c], part)
              ELSE fs[c]]

\* Mutant: "current = current[part]" indented under the if, so an existing
\* segment is not descended into.
RECURSIVE InsertParts_indent(_, _, _)
InsertParts_indent(fs, current, parts) ==
  IF parts = <<>> THEN fs
  ELSE LET part == Head(parts) IN
       IF part = <<".">> THEN InsertParts_indent(fs, current, Tail(parts))
       ELSE IF part \notin Keys(fs, current)
            THEN InsertParts_indent(SetItem(fs, current, part),
                                    Append(current, part), Tail(parts))
            ELSE InsertParts_indent(fs, current, Tail(parts))

\* The inner loop "for part in parts".
RECURSIVE InsertParts(_, _, _)
InsertParts(fs, current, parts) ==
  IF parts = <<>> THEN fs
  ELSE LET part == Head(parts) IN
       IF part = <<".">> THEN InsertParts(fs, current, Tail(parts))
       ELSE LET fs1 == IF NotIn(fs, current, part)
                       THEN SetItem(fs, current, part)
                       ELSE fs
            IN  InsertParts(fs1, Append(current, part), Tail(parts))

\* The outer loop "for path in paths", from the tree built so far.
RECURSIVE InsertPaths(_, _)
InsertPaths(fs, ps) ==
  IF ps = <<>> THEN fs
  ELSE InsertPaths(InsertParts(fs, <<>>, split(Head(ps))), Tail(ps))

EmptyTree == [c \in {<<>>} |-> <<>>]

expand_paths_to_dict(ps) == InsertPaths(EmptyTree, ps)

----------------------------------------------------------------------------
\* Query engine, as functions of the tree.

ENOENT == [errno |-> "ENOENT"]
ENOSYS == [errno |-> "ENOSYS"]
NoReply == [errno |-> "NONE"]

\* Mutant: the empty segments of the query are not dropped.
getattr_parts_keep(path) == split(path)

getattr_parts(path) == DropEmpty(split(path))

\* Mutant: a missing segment is stepped over instead of raising.
RECURSIVE getattr_walk_lenient(_, _, _)
getattr_walk_lenient(fs, current, parts) ==
  IF parts = <<>> THEN [found |-> TRUE, node |-> current]
  ELSE IF Head(parts) \notin Keys(fs, current)
       THEN getattr_walk_lenient(fs, current, Tail(parts))
       ELSE getattr_walk_lenient(fs, Append(current, Head(parts)), Tail(parts))

\* The walk of getattr: the node reached, or not found.
RECURSIVE getattr_walk(_, _, _)
getattr_walk(fs, current, parts) ==
  IF parts = <<>> THEN [found |-> TRUE, node |-> current]
  ELSE IF Head(parts) \notin Keys(fs, current)
       THEN [found |-> FALSE, node |-> current]
       ELSE getattr_walk(fs, Append(current, Head(parts)), Tail(parts))

\* Mutant: a node counts as a directory only from two children on.
is_dir_two(fs, current) == Len(fs[current]) > 1

\* is_dir = len(current) > 0
is_dir(fs, current) == Len(fs[current]) > 0

getattr_result(fs, path, now) ==
  LET w == getattr_walk(fs, <<>>, getattr_parts(path)) IN
  IF ~w.found THEN ENOENT
  ELSE [errno    |-> "OK",
        st_mode  |-> S_IFDIR + Mode755,
        st_nlink |-> IF is_dir(fs, w.node) THEN 2 ELSE 1,
        st_size  |-> 0,
        st_ctime |-> now,
        st_mtime |-> now,
        st_atime |-> now]

readdir_parts(path) == DropEmpty(split(path))

\* The walk of readdir, a copy of getattr's.
RECURSIVE readdir_walk(_, _, _)
readdir_walk(fs, current, parts) ==
  IF parts = <<>> THEN [found |-> TRUE, node |-> current]
  ELSE IF Head(parts) \notin Keys(fs, current)
       THEN [found |-> FALSE, node |-> current]
       ELSE readdir_walk(fs, Append(current, Head(parts)), Tail(parts))

readdir_result(fs, path) ==
  LET w == readdir_walk(fs, <<>>, readdir_parts(path)) IN
  IF ~w.found THEN ENOENT
  ELSE [errno |-> "OK", entries |-> << <<".">>, <<".", ".">> >> \o fs[w.node]]

----------------------------------------------------------------------------
\* The program: construction, then one callback at a time (nothreads=True).

Init ==
  /\ paths \in PathLists
  /\ files = expand_paths_to_dict(paths)
  /\ op = "idle"
  /\ arg = <<>>
  /\ ret = NoReply

getattr(path, now) ==
  /\ op = "idle"
  /\ op' = "getattr"
  /\ arg' = path
  /\ ret' = getattr_result(files, path, now)
  /\ UNCHANGED <<paths, files>>

readdir(path) ==
  /\ op = "idle"
  /\ op' = "readdir"
  /\ arg' = path
  /\ ret' = readdir_result(files, path)
  /\ UNCHANGED <<paths, files>>

\* Mutant: mkdir that creates the directory.
mkdir_creates(path) ==
  /\ op = "idle"
  /\ op' = "mkdir"
  /\ arg' = <<>>
  /\ files' = InsertParts(files, <<>>, split(path))
  /\ ret' = [errno |-> "OK"]
  /\ UNCHANGED paths

mkdir(path) ==
  /\ op = "idle"
  /\ op' = "mkdir"
  /\ arg' = <<>>
  /\ ret' = ENOSYS
  /\ UNCHANGED <<paths, files>>

rmdir(path) ==
  /\ op = "idle"
  /\ op' = "rmdir"
  /\ arg' = <<>>
  /\ ret' = ENOSYS
  /\ UNCHANGED <<paths, files>>

create(path) ==
  /\ op = "idle"
  /\ op' = "create"
  /\ arg' = <<>>
  /\ ret' = ENOSYS
  /\ UNCHANGED <<paths, files>>

open(path) ==
  /\ op = "idle"
  /\ op' = "open"
  /\ arg' = <<>>
  /\ ret' = ENOSYS
  /\ UNCHANGED <<paths, files>>

read(path) ==
  /\ op = "idle"
  /\ op' = "read"
  /\ arg' = <<>>
  /\ ret' = ENOSYS
  /\ UNCHANGED <<paths, files>>

write(path) ==
  /\ op = "idle"
  /\ op' = "write"
  /\ arg' = <<>>
  /\ ret' = ENOSYS
  /\ UNCHANGED <<paths, files>>

truncate(path) ==
  /\ op = "idle"
  /\ op' = "truncate"
  /\ arg' = <<>>
  /\ ret' = ENOSYS
  /\ UNCHANGED <<paths, files>>

unlink(path) ==
  /\ op = "idle"
  /\ op' = "unlink"
  /\ arg' = <<>>
  /\ ret' = ENOSYS
  /\ UNCHANGED <<paths, files>>

rename(old, new) ==
  /\ op = "idle"
  /\ op' = "rename"
  /\ arg' = <<>>
  /\ ret' = ENOSYS
  /\ UNCHANGED <<paths, files>>

\* The mount loop hands the result (or the error) back and waits for the
\* next request.
FuseReply ==
  /\ op # "idle"
  /\ op' = "idle"
  /\ arg' = <<>>
  /\ ret' = NoReply
  /\ UNCHANGED <<paths, files>>

Next ==
  \/ \E path \in Queries, now \in Clock : getattr(path, now)
  \/ \E path \in Queries : readdir(path)
  \/ \E path \in RejectedArgs : mkdir(path)
  \/ \E path \in RejectedArgs : rmdir(path)
  \/ \E path \in RejectedArgs : create(path)
  \/ \E path \in RejectedArgs : open(path)
  \/ \E path \in RejectedArgs : read(path)
  \/ \E path \in RejectedArgs : write(path)
  \/ \E path \in RejectedArgs : truncate(path)
  \/ \E path \in RejectedArgs : unlink(path)
  \/ \E old \in RejectedArgs, new \in RejectedArgs : rename(old, new)
  \/ FuseReply

Spec == Init /\ [][Next]_vars

----------------------------------------------------------------------------
\* Vocabulary of the properties.

Rejected ==
  {"mkdir", "rmdir", "create", "open", "read", "write", "truncate",
   "unlink", "rename"}

Dot == <<".">>
DotDot == <<".", ".">>

\* The segments of a path that are neither empty nor the '.' placeholder.
StripSegs(path) ==
  SelectSeq(split(path), LAMBDA seg : seg # <<>> /\ seg # Dot)

\* The non-empty segments of a query path.
NonEmptySegs(path) == SelectSeq(split(path), LAMBDA seg : seg # <<>>)

\* segs is a prefix of the stripped segments of some entry of the input.
IsPrefixOfSomePath(segs) ==
  \E i \in DOMAIN paths : IsPrefixChain(segs, StripSegs(paths[i]))

Reverse(s) == [i \in 1..Len(s) |-> s[Len(s) + 1 - i]]

\* The shape of a tree: its chains, and the set of child names of each.
Shape(fs) == [c \in DOMAIN fs |-> Keys(fs, c)]

NoDuplicates(s) == \A i, j \in 1..Len(s) : s[i] = s[j] => i = j

\* The tree of the input with '.' and empty segments removed from each path.
RECURSIVE StrippedTree(_, _)
StrippedTree(fs, ps) ==
  IF ps = <<>> THEN fs
  ELSE StrippedTree(InsertParts(fs, <<>>, StripSegs(Head(ps))), Tail(ps))

----------------------------------------------------------------------------
\* C1: after the tree is built from a non-empty list P, getattr succeeds on
\* every prefix of every path of P, the prefix taken over the path's
\* segments without '.' and empty segments.
C1_PrefixesResolve ==
  (op = "getattr" /\ paths # <<>> /\ IsPrefixOfSomePath(NonEmptySegs(arg)))
    => ret.errno = "OK"

\* C2: the builder skips '.' and empty segments: the tree equals the tree
\* of the input with those segments removed.
C2_BuilderSkipsDotAndEmpty ==
  op = "idle" => files = StrippedTree(EmptyTree, paths)

\* C3 as stated: getattr fails with ENOENT on every query whose non-empty
\* segments are not a prefix of the stripped segments of any entry of P.
C3_NonPrefixNotFound_AnyQuery ==
  (op = "getattr" /\ ~IsPrefixOfSomePath(NonEmptySegs(arg)))
    => ret = ENOENT

\* C3, amended: getattr fails with ENOENT on every query that has at least
\* one non-empty segment and whose non-empty segments are not a prefix of
\* the stripped segments of any entry of P.
C3_NonPrefixNotFound ==
  (/\ op = "getattr"
   /\ NonEmptySegs(arg) # <<>>
   /\ ~IsPrefixOfSomePath(NonEmptySegs(arg)))
    => ret = ENOENT

C3_Witness ==
  /\ op = "getattr"
  /\ paths # <<>>
  /\ NonEmptySegs(arg) # <<>>
  /\ ~IsPrefixOfSomePath(NonEmptySegs(arg))
  /\ ret = ENOENT

C5_ListingNoDuplicates ==
  (op = "readdir" /\ ret.errno = "OK")
    => /\ Len(ret.entries) >= 2
       /\ ret.entries[1] = Dot
       /\ ret.entries[2] = DotDot
       /\ {ret.entries[k] : k \in 3..Len(ret.entries)}
            = Keys(files, NonEmptySegs(arg))
       /\ NoDuplicates(ret.entries)

\* C6: getattr on a path that resolves reports link count 2 if the resolved
\* node has a child and 1 if it has none.
C6_LinkCount ==
  (op = "getattr" /\ ret.errno = "OK")
    => ret.st_nlink = (IF Keys(files, NonEmptySegs(arg)) # {} THEN 2 ELSE 1)

\* build(['a', 'a/a']): 'a' alone and as a prefix, asked about 'a'.
C6_Witness ==
  /\ op = "getattr"
  /\ paths = << <<"a">>, <<"a", "/", "a">> >>
  /\ NonEmptySegs(arg) = << <<"a">> >>
  /\ ret.errno = "OK"
  /\ ret.st_nlink = 2

\* C7: the tree built from P and the tree built from reverse(P) have the
\* same chains and the same set of child names at every chain.
C7_OrderInsensitive ==
  op = "idle" => Shape(files) = Shape(expand_paths_to_dict(Reverse(paths)))

\* Two paths whose order shows in the order of the keys.
C7_Witness ==
  /\ op = "idle"
  /\ Len(paths) >= 2
  /\ files # expand_paths_to_dict(Reverse(paths))

\* C8: the tree built from P and the tree built from P followed by P give
\* the same readdir result (names and order, or ENOENT) at every path.
C8_Idempotent ==
  op = "idle"
    => LET twice == expand_paths_to_dict(paths \o paths)
       IN  \A q \in Queries :
             readdir_result(files, q) = readdir_result(twice, q)

\* A node with two children and a node below the root: re-insertion meets
\* existing segments at both.
C8_Witness ==
  /\ op = "idle"
  /\ Len(files[<<>>]) >= 2
  /\ \E c \in DOMAIN files : Len(c) >= 2

\* C9: readdir fails exactly when getattr fails on the same path, and only
\* with ENOENT; on a node without children readdir returns just '.' and
\* '..'; both succeed on the root path, whatever the input.
C9_SameFailure ==
  op \in {"getattr", "readdir"}
    => LET g == getattr_result(files, arg, 0)
           r == readdir_result(files, arg)
       IN  /\ ret.errno = (IF op = "getattr" THEN g.errno ELSE r.errno)
           /\ g.errno \in {"OK", "ENOENT"}
           /\ r.errno \in {"OK", "ENOENT"}
           /\ (g.errno = "ENOENT") <=> (r.errno = "ENOENT")
           /\ (r.errno = "OK" /\ Keys(files, NonEmptySegs(arg)) = {})
                => r.entries = <<Dot, DotDot>>
           /\ NonEmptySegs(arg) = <<>> => (g.errno = "OK" /\ r.errno = "OK")

\* readdir on a leaf below the root.
C9_Witness ==
  /\ op = "readdir"
  /\ NonEmptySegs(arg) # <<>>
  /\ ret = [errno |-> "OK", entries |-> <<Dot, DotDot>>]

\* C10: every child name readdir lists after '.' and '..' resolves: getattr
\* on the path extended by that name succeeds and reaches that child.
C10_ListedNamesResolve ==
  (op = "readdir" /\ ret.errno = "OK")
    => \A k \in 3..Len(ret.entries) :
         LET n == ret.entries[k]
             w == getattr_walk(files, <<>>, getattr_parts(arg \o <<"/">> \o n))
         IN  /\ w.found
             /\ w.node = Append(NonEmptySegs(arg), n)

====
